---- MODULE Spec2Model ----
(***************************************************************************)
(* The model-lifecycle cache of the PyTorch inference service              *)
(* (src/pytorch-service/model_manager.py, class ModelManager) together     *)
(* with the request handlers of src/pytorch-service/app.py that drive it.  *)
(*                                                                         *)
(* Strings are modelled as sequences of tokens: a token is either the      *)
(* character ":" or a word that contains no ":".  f"{a}:{b}" is then       *)
(* concatenation and str.split(":", 1) a cut at the first ":" token.       *)
(*                                                                         *)
(* loaded_models is a Python dict: it iterates in insertion order, and     *)
(* min() returns the first minimal element it meets, so the dict is        *)
(* modelled as a sequence of <<key, entry>> pairs in insertion order.      *)
(*                                                                         *)
(* Every handler is an `async def` running on the single event loop of     *)
(* the service.  A task keeps the loop until it reaches an await that      *)
(* really suspends, or until it returns; `running` names the task that     *)
(* holds the loop.                                                         *)
(***************************************************************************)
EXTENDS Integers, Sequences, FiniteSets, TLC

\* ---------------------------------------------------------------- bounds
MaxTime == 1         \* datetime.utcnow() readings range over 0..MaxTime
MaxHandles == 3      \* model objects built by the loaders in one run
MaxMessages == 2     \* messages in one generation request
MaxLoaderHandles == 2   \* model objects built in one run over every artifact

Tasks == {"t1", "t2"}
\* the Python value None where a string is expected
None == <<"None">>
\* the value of `running` when no task holds the event loop
NoTask == "none"

\* the values of PYTORCH_MAX_MODELS the service is started with
Capacities == {1, 2}
\* the hosts the service is started on: which accelerator torch finds
Hosts == {"cuda", "mps", "none"}

\* ---------------------------------------------------------------- strings
COLON == ":"
EMBEDDING == <<"embedding">>
TEXT_GENERATION == <<"text-generation">>
BOGUS == <<"bogus">>

\* model identifiers a request may carry
ModelIds == {<<"a">>, <<"b", ":", "c">>}
\* model_type values a caller of /models/load may pass
ModelTypes == {EMBEDDING, TEXT_GENERATION, BOGUS}

\* cache_key = f"{model_id}:{model_type}"
cache_key(model_id, model_type) == model_id \o <<COLON>> \o model_type

\* s.split(":", 1) for a string s that contains a ":"
split_first(s) ==
    LET i == CHOOSE j \in 1..Len(s) :
                 /\ s[j] = COLON
                 /\ \A m \in 1..(j - 1) : s[m] # COLON
    IN  <<SubSeq(s, 1, i - 1), SubSeq(s, i + 1, Len(s))>>

\* ---------------------------------------------------------------- the dict
dict_keys(d) == [i \in 1..Len(d) |-> d[i][1]]
key_set(d) == {d[i][1] : i \in 1..Len(d)}
has_key(d, k) == k \in key_set(d)
index_of(d, k) == CHOOSE i \in 1..Len(d) : d[i][1] = k
dict_get(d, k) == d[index_of(d, k)][2]

\* d[k] = v : a new key goes last, an existing key keeps its place
dict_set(d, k, v) ==
    IF has_key(d, k)
    THEN [i \in 1..Len(d) |-> IF d[i][1] = k THEN <<k, v>> ELSE d[i]]
    ELSE Append(d, <<k, v>>)

\* mutant of dict_del: the entries after k are dropped with it
dict_del_tail(d, k) == SubSeq(d, 1, index_of(d, k) - 1)

\* del d[k]
dict_del(d, k) ==
    LET i == index_of(d, k)
    IN  SubSeq(d, 1, i - 1) \o SubSeq(d, i + 1, Len(d))

\* ---------------------------------------------------------------- state
VARIABLES
    max_models,      \* self.max_models
    hw,              \* accelerators of the host: "cuda", "mps" or "none"
    loaded_models,   \* self.loaded_models, in insertion order
    objects,         \* the model objects built so far; a handle is an index
    now,             \* the next reading of datetime.utcnow()
    pc,              \* position of each request task
    frame,           \* locals of each request task
    running,         \* the task that holds the event loop, or NoTask
    recency          \* history: the resident keys, least recently touched first

vars == <<max_models, hw, loaded_models, objects, now, pc, frame, running, recency>>

\* torch.cuda.is_available()
cuda_available == hw = "cuda"
\* torch.backends.mps.is_available()
mps_available == hw = "mps"

\* ModelManager._get_device ("cuda:<id>" is written "cuda")
get_device ==
    IF cuda_available THEN "cuda"
    ELSE IF mps_available THEN "mps"
    ELSE "cpu"

\* ---------------------------------------------------------------- objects
NoToken == "None"
\* the Python value None where a tokenizer is expected
NoTokenizer == [is_none |-> TRUE, pad_token |-> NoToken, eos_token |-> NoToken]
\* tokenizers the artifact store can return
Tokenizers ==
    [is_none : {FALSE}, pad_token : {NoToken, "<pad>"}, eos_token : {NoToken, "</s>"}]

\* the Python value None where a token id is expected
NoId == -1
\* the vocabulary of the tokenizers: tokenizer.convert_tokens_to_ids
Vocab == [tok \in {"<pad>", "</s>"} |-> IF tok = "<pad>" THEN 0 ELSE 2]
\* tokenizer.pad_token_id / tokenizer.eos_token_id: the id of the token, or None
token_id(token) == IF token = NoToken THEN NoId ELSE Vocab[token]

\* One answer of the artifact store to the loading calls of one load:
\* which from_pretrained / constructor calls succeed, and the tokenizer.
Artifacts ==
    [st : BOOLEAN, tok : BOOLEAN, causal : BOOLEAN, s2s : BOOLEAN,
     auto : BOOLEAN, tokenizer : Tokenizers]

\* the answers of the artifact store that the service runs are explored with:
\* every call succeeds, every call fails
StoreAnswers ==
    {[st |-> TRUE, tok |-> TRUE, causal |-> TRUE, s2s |-> TRUE, auto |-> TRUE,
      tokenizer |-> [is_none |-> FALSE, pad_token |-> NoToken, eos_token |-> "</s>"]],
     [st |-> FALSE, tok |-> FALSE, causal |-> FALSE, s2s |-> FALSE, auto |-> FALSE,
      tokenizer |-> [is_none |-> FALSE, pad_token |-> NoToken, eos_token |-> NoToken]]}

\* what a loader hands back: ok = FALSE stands for the exception it raises
LoadFailed == [ok |-> FALSE, kind |-> "none", device |-> "none", tokenizer |-> NoTokenizer]
Loaded(kind, device, tokenizer) ==
    [ok |-> TRUE, kind |-> kind, device |-> device, tokenizer |-> tokenizer]

\* the result of a loader together with the constructor and from_pretrained
\* calls it made, in the order it made them
tried(r, calls) ==
    [ok |-> r.ok, kind |-> r.kind, device |-> r.device, tokenizer |-> r.tokenizer,
     calls |-> calls]

\* ModelManager._load_embedding_model
load_embedding_model(art) ==
    IF art.st
    THEN tried(Loaded("SentenceTransformer", get_device, NoTokenizer),
               <<"SentenceTransformer">>)
    ELSE IF ~art.tok
    THEN tried(LoadFailed, <<"SentenceTransformer", "AutoTokenizer">>)
    ELSE IF ~art.auto
    THEN tried(LoadFailed, <<"SentenceTransformer", "AutoTokenizer", "AutoModel">>)
    ELSE tried(Loaded("AutoModel", get_device, art.tokenizer),
               <<"SentenceTransformer", "AutoTokenizer", "AutoModel">>)

\* lines 122-124: alias the pad token to the end-of-sequence token
with_pad_token(tokenizer) ==
    IF tokenizer.pad_token = NoToken
    THEN [tokenizer EXCEPT !.pad_token = tokenizer.eos_token]
    ELSE tokenizer

\* mutant of load_generation_model: every strategy is tried and the last
\* one that succeeds wins
load_generation_model_last(art) ==
    IF ~art.tok THEN tried(LoadFailed, <<"AutoTokenizer">>)
    ELSE LET tokenizer == with_pad_token(art.tokenizer)
             calls == <<"AutoTokenizer", "AutoModelForCausalLM",
                        "AutoModelForSeq2SeqLM", "AutoModel">>
         IN  IF art.auto
             THEN tried(Loaded("AutoModel", get_device, tokenizer), calls)
             ELSE IF art.s2s
             THEN tried(Loaded("AutoModelForSeq2SeqLM", get_device, tokenizer), calls)
             ELSE IF art.causal
             THEN tried(Loaded("AutoModelForCausalLM",
                               IF cuda_available THEN "cuda" ELSE "cpu", tokenizer), calls)
             ELSE tried(LoadFailed, calls)

\* ModelManager._load_generation_model
load_generation_model(art) ==
    IF ~art.tok THEN tried(LoadFailed, <<"AutoTokenizer">>)
    ELSE LET tokenizer == with_pad_token(art.tokenizer)
         IN  IF art.causal
             THEN tried(Loaded("AutoModelForCausalLM",
                               IF cuda_available THEN "cuda" ELSE "cpu", tokenizer),
                        <<"AutoTokenizer", "AutoModelForCausalLM">>)
             ELSE IF art.s2s
             THEN tried(Loaded("AutoModelForSeq2SeqLM", get_device, tokenizer),
                        <<"AutoTokenizer", "AutoModelForCausalLM",
                          "AutoModelForSeq2SeqLM">>)
             ELSE IF art.auto
             THEN tried(Loaded("AutoModel", get_device, tokenizer),
                        <<"AutoTokenizer", "AutoModelForCausalLM",
                          "AutoModelForSeq2SeqLM", "AutoModel">>)
             ELSE tried(LoadFailed,
                        <<"AutoTokenizer", "AutoModelForCausalLM",
                          "AutoModelForSeq2SeqLM", "AutoModel">>)

\* a model object on the heap
NewObject(loaded) == [kind |-> loaded.kind, device |-> loaded.device, reclaim |-> "none"]

\* hasattr(model, 'cpu'): every object the loaders build is a torch module
has_cpu(obj) == obj.kind \in {"SentenceTransformer", "AutoModel",
                              "AutoModelForCausalLM", "AutoModelForSeq2SeqLM"}

\* faults the environment can inject into one unload: model.cpu() raises,
\* or torch.cuda.empty_cache() raises (it is only called on a CUDA host)
UnloadFaults ==
    IF cuda_available THEN {"none", "cpu", "empty_cache"} ELSE {"none", "cpu"}

\* lines 293-296: gc.collect(), then torch.cuda.empty_cache() on a CUDA host
reclaim_pass(obj, fault) ==
    [obj EXCEPT !.reclaim = IF cuda_available /\ fault # "empty_cache"
                            THEN "gc+empty_cache" ELSE "gc"]

\* mutant of unload_model: the model is released but its entry is not deleted
unload_model_keep(d, objs, k, fault) ==
    IF ~has_key(d, k)
    THEN [loaded_models |-> d, objects |-> objs, raised |-> "none"]
    ELSE LET h == dict_get(d, k).model
         IN  [loaded_models |-> d,
              objects |-> [objs EXCEPT ![h] = reclaim_pass([objs[h] EXCEPT !.device = "cpu"], fault)],
              raised |-> "none"]

\* ModelManager.unload_model: the dict and heap afterwards, and what it raised
unload_model(d, objs, k, fault) ==
    IF ~has_key(d, k)
    THEN [loaded_models |-> d, objects |-> objs, raised |-> "none"]
    ELSE LET h == dict_get(d, k).model
         IN  IF has_cpu(objs[h]) /\ fault = "cpu"
             THEN [loaded_models |-> d, objects |-> objs, raised |-> "RuntimeError"]
             ELSE LET moved == IF has_cpu(objs[h])
                               THEN [objs EXCEPT ![h].device = "cpu"]
                               ELSE objs
                  IN  [loaded_models |-> dict_del(d, k),
                       objects |-> [moved EXCEPT ![h] = reclaim_pass(moved[h], fault)],
                       raised |-> IF cuda_available /\ fault = "empty_cache"
                                  THEN "RuntimeError" ELSE "none"]

\* mutant of touch: a hit leaves last_used as it was
touch_stale(entry, t) == entry

\* mutant of touch: a hit restamps loaded_at as well
touch_reloaded(entry, t) == [entry EXCEPT !.last_used = t, !.loaded_at = t]

\* line 58: the hit path stamps the entry with the current time
touch(entry, t) == [entry EXCEPT !.last_used = t]

\* mutant of oldest_key: max() in place of min()
newest_key(d) ==
    LET i == CHOOSE j \in 1..Len(d) :
                 /\ \A m \in 1..Len(d) : d[j][2].last_used >= d[m][2].last_used
                 /\ \A m \in 1..(j - 1) : d[m][2].last_used < d[j][2].last_used
    IN  d[i][1]

\* lines 274-277: min(keys, key=last_used), the first minimum in dict order
oldest_key(d) ==
    LET i == CHOOSE j \in 1..Len(d) :
                 /\ \A m \in 1..Len(d) : d[j][2].last_used <= d[m][2].last_used
                 /\ \A m \in 1..(j - 1) : d[m][2].last_used > d[j][2].last_used
    IN  d[i][1]

\* mutant of evict_oldest_model: nothing is evicted
evict_nothing(d, objs, fault) ==
    [loaded_models |-> d, objects |-> objs, raised |-> "none"]

\* mutant of evict_oldest_model: the victim's entry is deleted without unload_model
evict_without_unload(d, objs, fault) ==
    IF d = <<>>
    THEN [loaded_models |-> d, objects |-> objs, raised |-> "none"]
    ELSE [loaded_models |-> dict_del(d, oldest_key(d)), objects |-> objs,
          raised |-> "none"]

\* mutant of evict_oldest_model: an exception of the unload is swallowed
evict_swallow(d, objs, fault) ==
    IF d = <<>>
    THEN [loaded_models |-> d, objects |-> objs, raised |-> "none"]
    ELSE [unload_model(d, objs, oldest_key(d), fault) EXCEPT !.raised = "none"]

\* mutant of evict_oldest_model: bulk eviction, every entry goes with the victim
evict_all(d, objs, fault) ==
    IF d = <<>>
    THEN [loaded_models |-> d, objects |-> objs, raised |-> "none"]
    ELSE LET r == unload_model(d, objs, oldest_key(d), fault)
         IN  IF r.raised # "none" THEN r ELSE [r EXCEPT !.loaded_models = <<>>]

\* ModelManager._evict_oldest_model
evict_oldest_model(d, objs, fault) ==
    IF d = <<>>
    THEN [loaded_models |-> d, objects |-> objs, raised |-> "none"]
    ELSE unload_model(d, objs, oldest_key(d), fault)

\* ModelManager.get_model_info (memory_usage and last_used are copied)
get_model_info(d) ==
    [i \in 1..Len(d) |->
        [model_id |-> split_first(d[i][1])[1],
         model_type |-> split_first(d[i][1])[2],
         loaded |-> TRUE,
         memory_usage |-> d[i][2].memory_usage,
         last_used |-> d[i][2].last_used]]

\* ---------------------------------------------------------------- tasks
NoArt ==
    [st |-> FALSE, tok |-> FALSE, causal |-> FALSE, s2s |-> FALSE, auto |-> FALSE,
     tokenizer |-> NoTokenizer]

\* The locals of a handler, and what it has seen so far:
\*   op, model_id, model_type   the request
\*   model, tokenizer           what load_model returned (0: nothing yet)
\*   raised                     the exception that reached the handler
\*   hit                        load_model found the key resident
\*   evicted                    the key load_model evicted
\*   fault, art                 the environment's answers: the fault injected
\*                              into the eviction, the artifact store's answer
\*   loader                     "none" (not called), "ok" or "failed"
\*   calls                      the constructor and from_pretrained calls made
\*   messages, prompt           the messages of the request and their rendering
\*   pad_token_id               the pad_token_id passed to model.generate
\*   pre, pre_objects, pre_recency   the state when the handler began to run
NoFrame ==
    [op |-> "none", model_id |-> None, model_type |-> None,
     model |-> 0, tokenizer |-> NoTokenizer, raised |-> "none",
     hit |-> FALSE, evicted |-> None, fault |-> "unset", art |-> NoArt,
     loader |-> "none", calls |-> <<>>, messages |-> <<>>, prompt |-> None,
     pad_token_id |-> NoId, pre |-> <<>>, pre_objects |-> <<>>, pre_recency |-> <<>>]

\* process.memory_info().rss / 1024 / 1024, as read at insertion
MemReadings == {1}

\* mutant of HoldsLoop: every handler runs on a thread of its own
HoldsLoopAlways(t) == TRUE

\* the request a task is serving holds the event loop, or the loop is free
HoldsLoop(t) == running \in {NoTask, t}

\* mutant of AwaitSuspends: every await hands the loop over
AwaitAlwaysSuspends == TRUE

\* Whether `await self._evict_oldest_model()` (line 66) and
\* `await self._load_*_model(model_id)` (lines 72, 74) hand the loop to
\* another task.  Neither coroutine contains an await of its own (their
\* bodies are synchronous calls), so awaiting them never suspends.
AwaitSuspends == FALSE

\* mutant of after_await: the awaited coroutine hands the loop over
after_await_free(t) == NoTask

\* who holds the loop when the await of lines 66, 72, 74 is over
after_await(t) == IF AwaitSuspends THEN NoTask ELSE t

\* where a handler goes on after `await model_manager.load_model(...)`
after_load(op) ==
    IF op = "generate" THEN "generate_text"
    ELSE IF op = "embeddings" THEN "generate_embeddings"
    ELSE "done"

\* strings a caller of POST /models/unload may pass
UnloadArgs ==
    ModelIds \cup {cache_key(m, ty) : m \in ModelIds, ty \in {EMBEDDING, TEXT_GENERATION}}

\* history: k has just been touched (inserted or hit)
touched(r, k) == SelectSeq(r, LAMBDA x : x # k) \o <<k>>
\* history: only the keys of d remain
remaining(r, d) == SelectSeq(r, LAMBDA x : has_key(d, x))

Init ==
    /\ max_models \in Capacities
    /\ hw \in Hosts
    /\ loaded_models = <<>>
    /\ objects = <<>>
    /\ now = 0
    /\ pc = [t \in Tasks |-> "idle"]
    /\ frame = [t \in Tasks |-> NoFrame]
    /\ running = NoTask
    /\ recency = <<>>

\* ---------------------------------------------------------------- requests
\* A request arrives: its handler task is created and waits for the event
\* loop.  The handler reads its arguments when it first runs.
Accept(t) ==
    /\ pc[t] = "idle"
    /\ pc' = [pc EXCEPT ![t] = "accepted"]
    /\ UNCHANGED <<max_models, hw, loaded_models, objects, now, frame, running, recency>>

\* the handler starts to run op on its arguments
Enter(op, model_id, model_type) ==
    [NoFrame EXCEPT !.op = op, !.model_id = model_id, !.model_type = model_type,
                    !.pre = loaded_models, !.pre_objects = objects,
                    !.pre_recency = recency]

\* ---------------------------------------------------------------- load_model
\* lines 53-62: the lookup, and on a hit the bump of last_used and the return
LoadModelLookup(t, op, model_id, model_type) ==
    /\ pc[t] = "accepted"
    /\ HoldsLoop(t)
    /\ running' = t
    /\ LET k == cache_key(model_id, model_type)
           f == Enter(op, model_id, model_type)
       IN  IF has_key(loaded_models, k)
           THEN /\ loaded_models' =
                     dict_set(loaded_models, k, touch(dict_get(loaded_models, k), now))
                /\ frame' = [frame EXCEPT ![t] =
                                [f EXCEPT !.hit = TRUE,
                                          !.model = dict_get(loaded_models, k).model,
                                          !.tokenizer = dict_get(loaded_models, k).tokenizer]]
                /\ pc' = [pc EXCEPT ![t] = after_load(op)]
                /\ recency' = touched(recency, k)
           ELSE /\ loaded_models' = loaded_models
                /\ frame' = [frame EXCEPT ![t] = f]
                /\ pc' = [pc EXCEPT ![t] = "check_limits"]
                /\ recency' = recency
    /\ UNCHANGED <<max_models, hw, objects, now>>

\* app.py generate_text (POST /generate), up to the lookup of load_model
PostGenerate(t) ==
    \E m \in ModelIds : LoadModelLookup(t, "generate", m, TEXT_GENERATION)

\* app.py generate_embeddings (POST /embeddings), up to the lookup of load_model
PostEmbeddings(t) ==
    \E m \in ModelIds : LoadModelLookup(t, "embeddings", m, EMBEDDING)

\* app.py load_model (POST /models/load), up to the lookup of load_model
PostModelsLoad(t) ==
    \E m \in ModelIds, ty \in ModelTypes : LoadModelLookup(t, "load", m, ty)

\* lines 64-66: the capacity check and the eviction
LoadModelEvict(t) ==
    /\ pc[t] = "check_limits"
    /\ HoldsLoop(t)
    /\ IF Len(loaded_models) >= max_models
       THEN \E fault \in UnloadFaults :
              LET r == evict_oldest_model(loaded_models, objects, fault)
              IN  /\ loaded_models' = r.loaded_models
                  /\ objects' = r.objects
                  /\ recency' = remaining(recency, r.loaded_models)
                  /\ IF r.raised # "none"
                     THEN /\ frame' = [frame EXCEPT ![t].raised = r.raised,
                                                    ![t].fault = fault]
                          /\ pc' = [pc EXCEPT ![t] = "done"]
                          /\ running' = t
                     ELSE /\ frame' = [frame EXCEPT ![t].fault = fault,
                                                    ![t].evicted =
                                          IF loaded_models = <<>> THEN None
                                          ELSE oldest_key(loaded_models)]
                          /\ pc' = [pc EXCEPT ![t] = "loading"]
                          /\ running' = after_await(t)
       ELSE /\ pc' = [pc EXCEPT ![t] = "loading"]
            /\ running' = t
            /\ UNCHANGED <<loaded_models, objects, frame, recency>>
    /\ UNCHANGED <<max_models, hw, now>>

\* mutant of load_for: a failed load hands back (None, None) instead of raising
load_for_swallow(model_type, art) ==
    LET r == IF model_type = EMBEDDING THEN load_embedding_model(art)
             ELSE IF model_type = TEXT_GENERATION THEN load_generation_model(art)
             ELSE tried(LoadFailed, <<>>)
    IN  IF r.ok THEN r ELSE tried(Loaded("none", "none", NoTokenizer), r.calls)

\* lines 70-76: the loader for the requested capability; an unsupported
\* model_type raises ValueError
load_for(model_type, art) ==
    IF model_type = EMBEDDING THEN load_embedding_model(art)
    ELSE IF model_type = TEXT_GENERATION THEN load_generation_model(art)
    ELSE tried(LoadFailed, <<>>)

\* lines 68-76 and 91-93: the load, and the re-raise of its failure; the
\* artifact store is only asked for a supported model_type
\* (a run builds at most `handles` model objects)
LoadModelLoad(t, answers, handles) ==
    /\ pc[t] = "loading"
    /\ HoldsLoop(t)
    /\ \E art \in IF frame[t].model_type \in {EMBEDDING, TEXT_GENERATION}
                   THEN answers ELSE {NoArt} :
         LET r == load_for(frame[t].model_type, art)
         IN  IF r.ok
             THEN /\ Len(objects) < handles
                  /\ objects' = Append(objects, NewObject(r))
                  /\ frame' = [frame EXCEPT ![t].model = Len(objects) + 1,
                                            ![t].tokenizer = r.tokenizer,
                                            ![t].art = art,
                                            ![t].calls = r.calls,
                                            ![t].loader = "ok"]
                  /\ pc' = [pc EXCEPT ![t] = "insert"]
                  /\ running' = after_await(t)
             ELSE /\ frame' = [frame EXCEPT ![t].art = art,
                                            ![t].calls = r.calls,
                                            ![t].loader = "failed",
                                            ![t].raised =
                                  IF frame[t].model_type \in {EMBEDDING, TEXT_GENERATION}
                                  THEN "OSError" ELSE "ValueError"]
                  /\ pc' = [pc EXCEPT ![t] = "done"]
                  /\ running' = t
                  /\ objects' = objects
    /\ UNCHANGED <<max_models, hw, loaded_models, now, recency>>

\* lines 78-89: the insertion; utcnow() is read twice
LoadModelInsert(t) ==
    /\ pc[t] = "insert"
    /\ HoldsLoop(t)
    /\ running' = t
    /\ \E d \in 0..1, mem \in MemReadings :
         /\ now + d <= MaxTime
         /\ now' = now + d
         /\ loaded_models' =
              dict_set(loaded_models,
                       cache_key(frame[t].model_id, frame[t].model_type),
                       [model |-> frame[t].model,
                        tokenizer |-> frame[t].tokenizer,
                        model_type |-> frame[t].model_type,
                        loaded_at |-> now,
                        last_used |-> now + d,
                        memory_usage |-> mem])
    /\ recency' = touched(recency, cache_key(frame[t].model_id, frame[t].model_type))
    /\ pc' = [pc EXCEPT ![t] = after_load(frame[t].op)]
    /\ UNCHANGED <<max_models, hw, objects, frame>>

\* ---------------------------------------------------------------- inference
\* what the forward pass does: it returns, or it raises (out of memory,
\* a handle without a generation head, a tensor on the wrong device, ...)
InferenceFaults == {"none", "forward"}

\* the key under which the cache holds handle h
key_of(d, h) == d[CHOOSE i \in 1..Len(d) : d[i][2].model = h][1]

\* role strings a message may carry, and message contents (one line each)
Roles == {"system", "user", "assistant", "tool"}
Contents == {<<"hi">>, <<"see", "you">>}
\* a message as a dict: {"role": ..., "content": ...}
MessageValues == [role : Roles, content : Contents]
\* the message sequences of at most MaxMessages messages
Messages == UNION {[1..n -> MessageValues] : n \in 0..MaxMessages}
\* the "messages" of the bodies posted to /generate: an empty list, and the
\* one user message of test_service.py
RequestMessages == {<<>>, <<[role |-> "user", content |-> <<"hi">>]>>}

\* schemas.Message: the object pydantic builds from a message of the body
Message(m) == [class |-> "Message", role |-> m.role, content |-> m.content]
\* GenerateRequest.messages: List[Message], what request.messages holds
request_messages(body) == [i \in 1..Len(body) |-> Message(body[i])]
\* msg["role"]: a dict can be subscripted, a pydantic object cannot
subscriptable(msg) == "class" \notin DOMAIN msg

\* lines 255-264: the list `formatted` after the loop over the messages
RECURSIVE formatted(_)
formatted(messages) ==
    IF messages = <<>> THEN <<>>
    ELSE LET msg == Head(messages)
             rest == formatted(Tail(messages))
         IN  IF msg.role = "system" THEN <<<<"System: ">> \o msg.content>> \o rest
             ELSE IF msg.role = "user" THEN <<<<"User: ">> \o msg.content>> \o rest
             ELSE IF msg.role = "assistant" THEN <<<<"Assistant: ">> \o msg.content>> \o rest
             ELSE rest

\* "\n".join(lines)
RECURSIVE join(_)
join(lines) ==
    IF lines = <<>> THEN <<>>
    ELSE IF Len(lines) = 1 THEN lines[1]
    ELSE lines[1] \o <<"\n">> \o join(Tail(lines))

\* ModelManager._format_messages: line 257 raises TypeError at the first
\* message that cannot be subscripted, else the joined lines are returned
format_messages(messages) ==
    IF \E i \in 1..Len(messages) : ~subscriptable(messages[i])
    THEN [raised |-> "TypeError", prompt |-> None]
    ELSE [raised |-> "none",
          prompt |-> join(formatted(messages) \o <<<<"Assistant:">>>>)]

\* mutant of generate_text: a failed inference drops the entry of the handle
generate_text_drop(d, objs, model, tokenizer, messages, fault) ==
    LET f == format_messages(messages)
        failed == f.raised # "none" \/ tokenizer.is_none \/ fault # "none"
        kept == IF failed /\ \E i \in 1..Len(d) : d[i][2].model = model
                THEN dict_del(d, key_of(d, model)) ELSE d
    IN  IF f.raised # "none" \/ tokenizer.is_none
        THEN [loaded_models |-> kept, objects |-> objs, raised |-> "TypeError",
              prompt |-> f.prompt, pad_token_id |-> NoId]
        ELSE [loaded_models |-> kept, objects |-> objs,
              raised |-> IF fault = "none" THEN "none" ELSE "RuntimeError",
              prompt |-> f.prompt,
              pad_token_id |-> token_id(tokenizer.eos_token)]

\* ModelManager.generate_text: the prompt (line 162, where _format_messages
\* may raise), the tokenizer call (None is not callable), model.generate with
\* pad_token_id=tokenizer.eos_token_id, the decoding; d and objs are the
\* cache and the heap, which it does not write
generate_text(d, objs, model, tokenizer, messages, fault) ==
    LET f == format_messages(messages)
    IN  IF f.raised # "none" \/ tokenizer.is_none
        THEN [loaded_models |-> d, objects |-> objs, raised |-> "TypeError",
              prompt |-> f.prompt, pad_token_id |-> NoId]
        ELSE [loaded_models |-> d, objects |-> objs,
              raised |-> IF fault = "none" THEN "none" ELSE "RuntimeError",
              prompt |-> f.prompt,
              pad_token_id |-> token_id(tokenizer.eos_token)]

\* ModelManager.generate_embeddings: model.encode for a SentenceTransformer,
\* else the tokenizer and a forward pass per text
generate_embeddings(d, objs, model, tokenizer, fault) ==
    [loaded_models |-> d, objects |-> objs,
     raised |-> IF fault = "none" THEN "none" ELSE "RuntimeError"]

\* the faults that can strike a call of generate_text: none is consulted
\* when the prompt or the tokenizer call raises first
generate_faults(tokenizer, messages) ==
    IF format_messages(messages).raised # "none" \/ tokenizer.is_none
    THEN {"none"} ELSE InferenceFaults

\* ModelManager.generate_text called by a client of the manager with
\* messages as its signature declares them (List[Dict[str, str]]), on what
\* load_model returned
CallGenerateText(t, requests) ==
    /\ pc[t] = "generate_text"
    /\ HoldsLoop(t)
    /\ running' = t
    /\ \E messages \in requests :
       \E fault \in generate_faults(frame[t].tokenizer, messages) :
         LET r == generate_text(loaded_models, objects, frame[t].model,
                                frame[t].tokenizer, messages, fault)
         IN  /\ loaded_models' = r.loaded_models
             /\ objects' = r.objects
             /\ recency' = remaining(recency, r.loaded_models)
             /\ frame' = [frame EXCEPT ![t].raised = r.raised,
                                       ![t].messages = messages,
                                       ![t].prompt = r.prompt,
                                       ![t].pad_token_id = r.pad_token_id]
    /\ pc' = [pc EXCEPT ![t] = "done"]
    /\ UNCHANGED <<max_models, hw, now>>

\* app.py generate_text, lines 89-112: the inference on what load_model
\* returned, with messages=request.messages (line 93), the Message objects
\* of the body; any exception is answered with HTTP 500 (lines 110-112)
GenerateText(t, requests) ==
    /\ pc[t] = "generate_text"
    /\ HoldsLoop(t)
    /\ running' = t
    /\ \E body \in requests :
       \E messages \in {request_messages(body)} :
       \E fault \in generate_faults(frame[t].tokenizer, messages) :
         LET r == generate_text(loaded_models, objects, frame[t].model,
                                frame[t].tokenizer, messages, fault)
         IN  /\ loaded_models' = r.loaded_models
             /\ objects' = r.objects
             /\ recency' = remaining(recency, r.loaded_models)
             /\ frame' = [frame EXCEPT ![t].raised = r.raised,
                                       ![t].messages = messages,
                                       ![t].prompt = r.prompt,
                                       ![t].pad_token_id = r.pad_token_id]
    /\ pc' = [pc EXCEPT ![t] = "done"]
    /\ UNCHANGED <<max_models, hw, now>>

\* app.py generate_embeddings, lines 126-145: the inference on what load_model returned
GenerateEmbeddings(t) ==
    /\ pc[t] = "generate_embeddings"
    /\ HoldsLoop(t)
    /\ running' = t
    /\ \E fault \in InferenceFaults :
         LET r == generate_embeddings(loaded_models, objects, frame[t].model,
                                      frame[t].tokenizer, fault)
         IN  /\ loaded_models' = r.loaded_models
             /\ objects' = r.objects
             /\ recency' = remaining(recency, r.loaded_models)
             /\ frame' = [frame EXCEPT ![t].raised = r.raised]
    /\ pc' = [pc EXCEPT ![t] = "done"]
    /\ UNCHANGED <<max_models, hw, now>>

\* ---------------------------------------------------------------- lifecycle
\* app.py unload_model (POST /models/unload): ModelManager.unload_model(model_id);
\* a fault can only strike when the key is resident (lines 288-296)
PostModelsUnload(t) ==
    /\ pc[t] = "accepted"
    /\ HoldsLoop(t)
    /\ running' = t
    /\ \E m \in UnloadArgs :
       \E fault \in IF has_key(loaded_models, m) THEN UnloadFaults ELSE {"none"} :
         LET r == unload_model(loaded_models, objects, m, fault)
         IN  /\ loaded_models' = r.loaded_models
             /\ objects' = r.objects
             /\ recency' = remaining(recency, r.loaded_models)
             /\ frame' = [frame EXCEPT ![t] =
                             [Enter("unload", m, None) EXCEPT !.raised = r.raised,
                                                              !.fault = fault]]
    /\ pc' = [pc EXCEPT ![t] = "done"]
    /\ UNCHANGED <<max_models, hw, now>>

\* app.py list_models (GET /models): ModelManager.get_model_info
GetModels(t) ==
    /\ pc[t] = "accepted"
    /\ HoldsLoop(t)
    /\ running' = t
    /\ frame' = [frame EXCEPT ![t] = Enter("list", None, None)]
    /\ pc' = [pc EXCEPT ![t] = "done"]
    /\ UNCHANGED <<max_models, hw, loaded_models, objects, now, recency>>

\* mutant of cleanup: the loop stops after the first key
cleanup_first(d, objs, keys, faults) ==
    IF keys = <<>>
    THEN [loaded_models |-> d, objects |-> objs, raised |-> "none"]
    ELSE unload_model(d, objs, Head(keys), Head(faults))

\* ModelManager.cleanup: unload every key of list(self.loaded_models.keys()),
\* stopping at the first unload that raises
RECURSIVE cleanup(_, _, _, _)
cleanup(d, objs, keys, faults) ==
    IF keys = <<>>
    THEN [loaded_models |-> d, objects |-> objs, raised |-> "none"]
    ELSE LET r == unload_model(d, objs, Head(keys), Head(faults))
         IN  IF r.raised # "none" THEN r
             ELSE cleanup(r.loaded_models, r.objects, Tail(keys), Tail(faults))

\* app.py shutdown_event: ModelManager.cleanup
Shutdown(t) ==
    /\ pc[t] = "accepted"
    /\ HoldsLoop(t)
    /\ running' = t
    /\ \E faults \in [1..Len(loaded_models) -> UnloadFaults] :
         LET r == cleanup(loaded_models, objects, dict_keys(loaded_models), faults)
         IN  /\ loaded_models' = r.loaded_models
             /\ objects' = r.objects
             /\ recency' = remaining(recency, r.loaded_models)
             /\ frame' = [frame EXCEPT ![t] =
                             [Enter("shutdown", None, None) EXCEPT !.raised = r.raised]]
    /\ pc' = [pc EXCEPT ![t] = "done"]
    /\ UNCHANGED <<max_models, hw, now>>

\* the handler returns its response (or the HTTP 500 built from the
\* exception) and its task ends
Respond(t) ==
    /\ pc[t] = "done"
    /\ HoldsLoop(t)
    /\ pc' = [pc EXCEPT ![t] = "idle"]
    /\ frame' = [frame EXCEPT ![t] = NoFrame]
    /\ running' = NoTask
    /\ UNCHANGED <<max_models, hw, loaded_models, objects, now, recency>>

\* The wall clock advances.  A handler reads utcnow() at one place only
\* (line 58 on a hit, lines 83-84 on a miss, where the two readings may
\* differ), so an advance while a handler runs shows as an advance before
\* it started: the clock is stepped between handlers.
Tick ==
    /\ running = NoTask
    /\ now < MaxTime
    /\ now' = now + 1
    /\ UNCHANGED <<max_models, hw, loaded_models, objects, pc, frame, running, recency>>

\* one step of the handler task t
Step(t) ==
    \/ Accept(t)
    \/ PostGenerate(t)
    \/ PostEmbeddings(t)
    \/ PostModelsLoad(t)
    \/ PostModelsUnload(t)
    \/ GetModels(t)
    \/ Shutdown(t)
    \/ LoadModelEvict(t)
    \/ LoadModelLoad(t, StoreAnswers, MaxHandles)
    \/ LoadModelInsert(t)
    \/ GenerateText(t, RequestMessages)
    \/ GenerateEmbeddings(t)
    \/ Respond(t)

\* the service: requests arrive while others are being served
Next == (\E t \in Tasks : Step(t)) \/ Tick

Spec == Init /\ [][Next]_vars

\* the service with one request at a time
NextSequential == Step("t1") \/ Tick

SpecSequential == Init /\ [][NextSequential]_vars

\* the service started with room for one model
InitLoader == Init /\ max_models = 1

\* one step of a /generate request, with every answer the artifact store can
\* give to the loader
LoaderStep(t) ==
    \/ Accept(t)
    \/ PostGenerate(t)
    \/ LoadModelEvict(t)
    \/ LoadModelLoad(t, Artifacts, MaxLoaderHandles)
    \/ LoadModelInsert(t)
    \/ GenerateText(t, RequestMessages)
    \/ Respond(t)

NextLoader == LoaderStep("t1") \/ Tick

\* the service serving /generate requests one at a time, over every artifact
SpecLoader == InitLoader /\ [][NextLoader]_vars

\* one step of a client of the manager that loads a generation model and
\* calls generate_text on it, with every sequence of dict messages
FormatStep(t) ==
    \/ Accept(t)
    \/ PostGenerate(t)
    \/ LoadModelEvict(t)
    \/ LoadModelLoad(t, StoreAnswers, MaxHandles)
    \/ LoadModelInsert(t)
    \/ CallGenerateText(t, Messages)
    \/ Respond(t)

NextFormat == FormatStep("t1") \/ Tick

\* the service serving /generate requests one at a time, over every request
SpecFormat == InitLoader /\ [][NextFormat]_vars

\* the service started with PYTORCH_MAX_MODELS=0
InitZero ==
    /\ max_models = 0
    /\ hw \in Hosts
    /\ loaded_models = <<>>
    /\ objects = <<>>
    /\ now = 0
    /\ pc = [t \in Tasks |-> "idle"]
    /\ frame = [t \in Tasks |-> NoFrame]
    /\ running = NoTask
    /\ recency = <<>>

\* the service with one request at a time and no room configured
SpecZero == InitZero /\ [][NextSequential]_vars

\* ---------------------------------------------------------------- properties
LoadOps == {"generate", "embeddings", "load"}
Capabilities == {EMBEDDING, TEXT_GENERATION}

\* the load_model call of task t has returned or raised
Returned(t) ==
    /\ frame[t].op \in LoadOps
    /\ pc[t] \in {"generate_text", "generate_embeddings", "done"}

\* the key task t asked load_model for
Key(t) == cache_key(frame[t].model_id, frame[t].model_type)

\* task t is between the miss and the insertion (or the failure) of its load
InFlight(t) == pc[t] \in {"check_limits", "loading", "insert"}

\* the load_model call of task t missed, evicted if it had to, loaded and inserted
MissLoaded(t) == Returned(t) /\ ~frame[t].hit /\ frame[t].loader = "ok"

\* the handles the cache holds
Resident == {loaded_models[i][2].model : i \in 1..Len(loaded_models)}

\* C1: after every load_model call that has completed (hit, miss or failure), the
\* cache holds at most max_models entries.
C1_Capacity ==
    \A t \in Tasks : Returned(t) => Len(loaded_models) <= max_models

C1_Witness ==
    \E t \in Tasks :
        /\ MissLoaded(t)
        /\ max_models = 2
        /\ Len(frame[t].pre) = 2
        /\ Len(loaded_models) = 2

\* C2: a miss on a cache that holds max_models entries removes exactly one entry
\* before the new one is inserted, and that entry's last_used is minimal among
\* the entries resident before the call; with max_models = 2 and two resident
\* entries that were not hit since the second was loaded (A then B), loading C
\* leaves exactly B and C.
C2_LruEviction ==
    \A t \in Tasks :
        /\ (/\ frame[t].op \in LoadOps
            /\ pc[t] \in {"loading", "insert"}
            /\ Len(frame[t].pre) >= max_models)
           => /\ Cardinality(key_set(frame[t].pre) \ key_set(loaded_models)) = 1
              /\ Len(loaded_models) = Len(frame[t].pre) - 1
              /\ ~has_key(loaded_models, Key(t))
        /\ (MissLoaded(t) /\ Len(frame[t].pre) >= max_models)
           => LET pre == frame[t].pre
                  removed == key_set(pre) \ key_set(loaded_models)
              IN  /\ Cardinality(removed) = 1
                  /\ \A k \in removed : \A j \in key_set(pre) :
                        dict_get(pre, k).last_used <= dict_get(pre, j).last_used
                  /\ key_set(loaded_models) = (key_set(pre) \ removed) \cup {Key(t)}
        /\ (/\ MissLoaded(t)
            /\ max_models = 2
            /\ Len(frame[t].pre) = 2
            /\ frame[t].pre_recency = dict_keys(frame[t].pre))
           => dict_keys(loaded_models) = <<frame[t].pre[2][1], Key(t)>>

C2_Witness ==
    \E t \in Tasks :
        /\ MissLoaded(t)
        /\ max_models = 2
        /\ Len(frame[t].pre) = 2
        /\ frame[t].pre_recency = dict_keys(frame[t].pre)
        /\ frame[t].pre[1][2].last_used = frame[t].pre[2][2].last_used
        /\ dict_keys(loaded_models) = <<frame[t].pre[2][1], Key(t)>>

\* C3 as stated: with max_models = 2, A loaded before B and A hit after B was
\* last touched, loading C evicts B and leaves exactly A and C.
C3_HitThenEvict ==
    \A t \in Tasks :
        (/\ MissLoaded(t)
         /\ max_models = 2
         /\ Len(frame[t].pre) = 2
         /\ frame[t].pre_recency = <<frame[t].pre[2][1], frame[t].pre[1][1]>>)
        => dict_keys(loaded_models) = <<frame[t].pre[1][1], Key(t)>>

\* C3 amended: a hit leaves the entry with a last_used that is the latest of
\* all resident entries; in the scenario above B is evicted when A's last_used
\* is later than B's, and A is evicted when the two readings are equal.
C3_HitThenEvictAmended ==
    \A t \in Tasks :
        /\ (Returned(t) /\ frame[t].hit)
           => /\ has_key(loaded_models, Key(t))
              /\ dict_get(loaded_models, Key(t)).last_used <= now
              /\ \A j \in key_set(loaded_models) :
                    dict_get(loaded_models, j).last_used
                        <= dict_get(loaded_models, Key(t)).last_used
        /\ (/\ MissLoaded(t)
            /\ max_models = 2
            /\ Len(frame[t].pre) = 2
            /\ frame[t].pre_recency = <<frame[t].pre[2][1], frame[t].pre[1][1]>>)
           => IF frame[t].pre[1][2].last_used > frame[t].pre[2][2].last_used
              THEN dict_keys(loaded_models) = <<frame[t].pre[1][1], Key(t)>>
              ELSE /\ frame[t].pre[1][2].last_used = frame[t].pre[2][2].last_used
                   /\ dict_keys(loaded_models) = <<frame[t].pre[2][1], Key(t)>>

C3_Witness ==
    \E t \in Tasks :
        /\ MissLoaded(t)
        /\ max_models = 2
        /\ Len(frame[t].pre) = 2
        /\ frame[t].pre_recency = <<frame[t].pre[2][1], frame[t].pre[1][1]>>
        /\ frame[t].pre[1][2].last_used > frame[t].pre[2][2].last_used
        /\ dict_keys(loaded_models) = <<frame[t].pre[1][1], Key(t)>>

\* C4: a load_model call with an unsupported model_type fails and leaves the
\* cache (keys, entries and their handles) as it was before the call.
C4_InvalidCapability ==
    \A t \in Tasks :
        (Returned(t) /\ frame[t].model_type \notin Capabilities)
        => /\ frame[t].raised # "none"
           /\ loaded_models = frame[t].pre
           /\ objects = frame[t].pre_objects

\* C5: no two requests are inside a load/evict/insert sequence for the same
\* key at once; an insertion never replaces an entry that is already
\* resident; the handle a request got from load_model is the resident one.
C5_NoDoubleLoad ==
    /\ \A t1, t2 \in Tasks :
          (t1 # t2 /\ InFlight(t1) /\ InFlight(t2)) => Key(t1) # Key(t2)
    /\ \A t \in Tasks :
          pc[t] = "insert" => ~has_key(loaded_models, Key(t))
    /\ \A t \in Tasks :
          (Returned(t) /\ frame[t].model # 0 /\ has_key(loaded_models, Key(t)))
          => dict_get(loaded_models, Key(t)).model = frame[t].model

C5_Witness ==
    \E t1, t2 \in Tasks :
        /\ t1 # t2
        /\ pc[t1] = "insert"
        /\ ~has_key(loaded_models, Key(t1))
        /\ pc[t2] = "accepted"

\* C6: when cleanup() has completed, loaded_models is empty and
\* get_model_info() returns the empty list.
C6_TeardownEmpties ==
    \A t \in Tasks :
        (pc[t] = "done" /\ frame[t].op = "shutdown" /\ frame[t].raised = "none")
        => /\ loaded_models = <<>>
           /\ get_model_info(loaded_models) = <<>>

C6_Witness ==
    \E t \in Tasks :
        /\ pc[t] = "done"
        /\ frame[t].op = "shutdown"
        /\ frame[t].raised = "none"
        /\ Len(frame[t].pre) = 2
        /\ loaded_models = <<>>

\* every strategy that the loader of capability ty tries fails on answer art
AllStrategiesFail(ty, art) ==
    IF ty = EMBEDDING THEN ~art.st /\ ~(art.tok /\ art.auto)
    ELSE ~art.tok \/ (~art.causal /\ ~art.s2s /\ ~art.auto)

\* an entry with all its fields built
Complete(e) ==
    /\ e.model \in 1..Len(objects)
    /\ objects[e.model].kind # "none"
    /\ e.model_type \in Capabilities
    /\ e.loaded_at <= e.last_used

\* C7: when load_model misses and every loading strategy of the capability
\* fails, the caller gets the exception, the key is not resident, the cache
\* holds at most max_models entries, and every entry of the cache is complete.
C7_FailedLoad ==
    /\ \A t \in Tasks :
          (/\ frame[t].op \in LoadOps
           /\ frame[t].loader # "none"
           /\ frame[t].model_type \in Capabilities
           /\ AllStrategiesFail(frame[t].model_type, frame[t].art))
          => /\ pc[t] = "done"
             /\ frame[t].raised # "none"
             /\ ~has_key(loaded_models, Key(t))
             /\ Len(loaded_models) <= max_models
    /\ \A i \in 1..Len(loaded_models) : Complete(loaded_models[i][2])

C7_Witness ==
    \E t \in Tasks :
        /\ Returned(t)
        /\ frame[t].loader = "failed"
        /\ frame[t].model_type \in Capabilities
        /\ frame[t].evicted # None
        /\ Len(loaded_models) = 1
        /\ max_models = 2

\* C8: when the unload of the eviction victim raises inside a load_model miss,
\* the exception reaches the caller, no loader is called, the key is not
\* inserted and the cache holds at most max_models entries.
C8_EvictionFailure ==
    \A t \in Tasks :
        (/\ frame[t].op \in LoadOps
         /\ frame[t].fault \in {"cpu", "empty_cache"}
         /\ frame[t].pre # <<>>)
        => /\ pc[t] = "done"
           /\ frame[t].raised # "none"
           /\ frame[t].loader = "none"
           /\ frame[t].model = 0
           /\ ~has_key(loaded_models, Key(t))
           /\ Len(loaded_models) <= max_models

C8_Witness ==
    \E t \in Tasks :
        /\ pc[t] = "done"
        /\ frame[t].op \in LoadOps
        /\ frame[t].fault = "cpu"
        /\ frame[t].raised = "RuntimeError"
        /\ max_models = 2
        /\ loaded_models = frame[t].pre
        /\ Len(loaded_models) = 2

\* C9: unload_model(key) that returns on a resident key removes that entry and
\* leaves every other entry, its place and its handle as they were; on a key
\* that is not resident it changes nothing and raises nothing; a second
\* unload_model(key) changes nothing.
C9_ExplicitUnload ==
    \A t \in Tasks :
        (pc[t] = "done" /\ frame[t].op = "unload")
        => LET pre == frame[t].pre
               k == frame[t].model_id
           IN  /\ (has_key(pre, k) /\ frame[t].raised = "none")
                  => /\ key_set(loaded_models) = key_set(pre) \ {k}
                     /\ Len(loaded_models) = Len(pre) - 1
                     /\ \A j \in key_set(loaded_models) :
                           /\ dict_get(loaded_models, j) = dict_get(pre, j)
                           /\ objects[dict_get(pre, j).model]
                                 = frame[t].pre_objects[dict_get(pre, j).model]
                     /\ dict_keys(loaded_models)
                           = SelectSeq(dict_keys(pre), LAMBDA x : x # k)
               /\ ~has_key(pre, k)
                  => /\ frame[t].raised = "none"
                     /\ loaded_models = pre
                     /\ objects = frame[t].pre_objects
               /\ frame[t].raised = "none"
                  => \A fault \in UnloadFaults :
                        unload_model(loaded_models, objects, k, fault)
                            = [loaded_models |-> loaded_models,
                               objects |-> objects, raised |-> "none"]

C9_Witness ==
    \E t \in Tasks :
        /\ pc[t] = "done"
        /\ frame[t].op = "unload"
        /\ frame[t].raised = "none"
        /\ Len(frame[t].pre) = 2
        /\ frame[t].pre[1][1] = frame[t].model_id
        /\ Len(loaded_models) = 1

\* C10: every model object that has left the cache (by unload, eviction or
\* cleanup) was moved to the CPU and the reclamation pass ran after its
\* entry was deleted.
C10_Reclamation ==
    \A h \in 1..Len(objects) :
        (/\ h \notin Resident
         /\ \A t \in Tasks : ~(pc[t] = "insert" /\ frame[t].model = h))
        => /\ objects[h].device = "cpu"
           /\ objects[h].reclaim # "none"

C10_Witness ==
    \E t \in Tasks, h \in 1..Len(objects) :
        /\ MissLoaded(t)
        /\ frame[t].evicted # None
        /\ has_key(frame[t].pre, frame[t].evicted)
        /\ dict_get(frame[t].pre, frame[t].evicted).model = h
        /\ frame[t].pre_objects[h].device = "cuda"
        /\ objects[h].device = "cpu"
        /\ objects[h].reclaim = "gc+empty_cache"

\* C11: a load_model call on a resident key returns the handle and tokenizer
\* stored for the key, calls no loader and evicts nothing, leaves the keys and
\* their order as they were, and changes no field of any entry other than
\* that entry's last_used.
C11_HitFrame ==
    \A t \in Tasks :
        (Returned(t) /\ frame[t].hit)
        => LET pre == frame[t].pre
               k == Key(t)
           IN  /\ has_key(pre, k)
               /\ frame[t].model = dict_get(pre, k).model
               /\ frame[t].tokenizer = dict_get(pre, k).tokenizer
               /\ frame[t].loader = "none"
               /\ frame[t].evicted = None
               /\ frame[t].fault = "unset"
               /\ objects = frame[t].pre_objects
               /\ dict_keys(loaded_models) = dict_keys(pre)
               /\ \A j \in key_set(pre) :
                     dict_get(loaded_models, j) =
                        IF j = k
                        THEN [dict_get(pre, k) EXCEPT
                                !.last_used = dict_get(loaded_models, k).last_used]
                        ELSE dict_get(pre, j)

C11_Witness ==
    \E t \in Tasks :
        /\ Returned(t)
        /\ frame[t].hit
        /\ max_models = 2
        /\ Len(frame[t].pre) = 2
        /\ loaded_models # frame[t].pre
        /\ dict_get(frame[t].pre, Key(t)).loaded_at < now

\* C12: a handle that a handler holds after load_model returned is the handle
\* the cache holds for the handler's key and has not been unloaded, so no
\* inference runs on a handle that an eviction, an unload or the teardown of
\* another request has removed; a handle that is about to be inserted has
\* not been unloaded either.
C12_ExclusiveOwnership ==
    \A t \in Tasks :
        frame[t].model # 0
        => /\ objects[frame[t].model].reclaim = "none"
           /\ pc[t] # "insert"
              => /\ has_key(loaded_models, Key(t))
                 /\ dict_get(loaded_models, Key(t)).model = frame[t].model

C12_Witness ==
    \E t1, t2 \in Tasks :
        /\ t1 # t2
        /\ pc[t1] = "generate_text"
        /\ frame[t1].evicted # None
        /\ \E h \in 1..Len(objects) : objects[h].reclaim # "none"
        /\ frame[t1].model \in Resident
        /\ pc[t2] = "accepted"

\* C13: with requests of several clients in progress at once, the cache holds
\* at most max_models entries whenever a load_model call has ended; a call
\* that has passed the capacity check has its place reserved (the resident
\* entries and the loads under way never exceed max_models), at most one call
\* is between its capacity check and its insertion, and no call evicts the
\* entry that a call still in progress has inserted.
C13_ConcurrentCapacity ==
    /\ \A t \in Tasks :
          (frame[t].op \in LoadOps /\ pc[t] \in {"generate_text", "generate_embeddings", "done"})
          => Len(loaded_models) <= max_models
    /\ Len(loaded_models) + Cardinality({t \in Tasks : pc[t] \in {"loading", "insert"}})
          <= max_models
    /\ Cardinality({t \in Tasks : InFlight(t)}) <= 1
    /\ \A t1, t2 \in Tasks :
          (/\ t1 # t2
           /\ frame[t1].op \in LoadOps
           /\ frame[t1].model # 0
           /\ frame[t2].evicted # None)
          => frame[t2].evicted # Key(t1)

C13_Witness ==
    \E t1, t2 \in Tasks :
        /\ t1 # t2
        /\ pc[t1] = "insert"
        /\ frame[t1].evicted # None
        /\ Len(frame[t1].pre) = max_models
        /\ Len(loaded_models) = max_models - 1
        /\ pc[t2] = "accepted"

\* C14: while the load or the inference of one request is in progress, another
\* request that asks for a different model that is resident can perform its
\* cache hit.
C14_NoStall ==
    \A t1, t2 \in Tasks :
        \A m \in ModelIds, ty \in Capabilities :
            (/\ t1 # t2
             /\ pc[t1] \in {"loading", "generate_text", "generate_embeddings"}
             /\ pc[t2] = "accepted"
             /\ has_key(loaded_models, cache_key(m, ty))
             /\ cache_key(m, ty) # Key(t1))
            => ENABLED LoadModelLookup(t2, "load", m, ty)

\* C15: after POST /models/unload has answered for the identifier of a model
\* that was loaded, no entry of that model is resident and GET /models lists
\* no record of it.
C15_UnloadByIdentifier ==
    \A t \in Tasks :
        (/\ pc[t] = "done"
         /\ frame[t].op = "unload"
         /\ frame[t].raised = "none"
         /\ frame[t].model_id \in ModelIds)
        => /\ \A ty \in Capabilities :
                 ~has_key(loaded_models, cache_key(frame[t].model_id, ty))
           /\ \A i \in 1..Len(loaded_models) :
                 get_model_info(loaded_models)[i].model_id # frame[t].model_id

\* C16: get_model_info() returns one record per resident entry, and the record
\* of the entry that a load_model call inserted carries the model_id and the
\* model_type that were passed to that call, whatever the identifier.
C16_ResidentView ==
    \A t \in Tasks :
        MissLoaded(t)
        => LET info == get_model_info(loaded_models)
               i == index_of(loaded_models, Key(t))
           IN  /\ Len(info) = Len(loaded_models)
               /\ info[i].model_id = frame[t].model_id
               /\ info[i].model_type = frame[t].model_type

\* C17: a step of generate_text or generate_embeddings, whether it returns or
\* raises, leaves loaded_models (keys, order, handles, last_used and every
\* other field) and the model objects as they were; after a failed inference
\* the entry is still resident.
C17_InferenceFrame ==
    [][\A t \in Tasks :
          (pc[t] \in {"generate_text", "generate_embeddings"} /\ pc'[t] = "done")
          => /\ loaded_models' = loaded_models
             /\ objects' = objects
             /\ has_key(loaded_models', Key(t))
             /\ dict_get(loaded_models', Key(t)).model = frame[t].model]_vars

C17_Witness ==
    \E t \in Tasks :
        /\ pc[t] = "done"
        /\ frame[t].op = "generate"
        /\ frame[t].model # 0
        /\ frame[t].raised = "RuntimeError"
        /\ has_key(loaded_models, Key(t))
        /\ Len(loaded_models) = 2

\* the model-loading strategies of a generation model, in the order of the claim
Strategies == <<"AutoModelForCausalLM", "AutoModelForSeq2SeqLM", "AutoModel">>
\* the artifact store lets strategy i succeed
Succeeds(art, i) == IF i = 1 THEN art.causal ELSE IF i = 2 THEN art.s2s ELSE art.auto

\* C18: the load of a generation model asks for the tokenizer first and, when
\* that fails, fails without trying a model strategy; otherwise it tries
\* causal-LM, sequence-to-sequence and generic loading in that order up to and
\* including the first that succeeds, returns the handle that one built, and
\* fails only when all three fail.
C18_GenerationOrder ==
    \A t \in Tasks :
        (frame[t].op = "generate" /\ frame[t].loader # "none")
        => LET art == frame[t].art
               calls == frame[t].calls
               won == {i \in 1..3 : Succeeds(art, i)}
           IN  /\ Len(calls) >= 1
               /\ calls[1] = "AutoTokenizer"
               /\ ~art.tok
                  => /\ calls = <<"AutoTokenizer">>
                     /\ frame[t].loader = "failed"
               /\ (art.tok /\ won = {})
                  => /\ calls = <<"AutoTokenizer">> \o Strategies
                     /\ frame[t].loader = "failed"
               /\ (art.tok /\ won # {})
                  => LET first == CHOOSE i \in won : \A j \in won : i <= j
                     IN  /\ calls = <<"AutoTokenizer">> \o SubSeq(Strategies, 1, first)
                         /\ frame[t].loader = "ok"
                         /\ objects[frame[t].model].kind = Strategies[first]

C18_Witness ==
    \E t \in Tasks :
        /\ MissLoaded(t)
        /\ frame[t].op = "generate"
        /\ frame[t].art.tok
        /\ ~frame[t].art.causal
        /\ frame[t].art.s2s
        /\ frame[t].art.auto
        /\ objects[frame[t].model].kind = "AutoModelForSeq2SeqLM"
        /\ Len(frame[t].calls) = 3

\* C19: after every successful load of a generation model the tokenizer of the
\* cache entry has a pad token: its own if it had one, else its
\* end-of-sequence token.
C19_PadTokenSet ==
    \A t \in Tasks :
        (MissLoaded(t) /\ frame[t].op = "generate")
        => LET own == frame[t].art.tokenizer
               stored == dict_get(loaded_models, Key(t)).tokenizer
           IN  /\ stored.pad_token # NoToken
               /\ stored.pad_token =
                     IF own.pad_token # NoToken THEN own.pad_token ELSE own.eos_token

\* C20: the pad_token_id that generate_text passes to model.generate, when it
\* gets as far as calling it, is the pad token id of the tokenizer.
C20_PadsWithPadToken ==
    \A t \in Tasks :
        (pc[t] = "done" /\ frame[t].op = "generate" /\ frame[t].model # 0
            /\ frame[t].raised # "TypeError")
        => frame[t].pad_token_id = token_id(frame[t].tokenizer.pad_token)

\* the label that the rendering puts before a message of the role
RoleLabel(role) ==
    IF role = "system" THEN "System: "
    ELSE IF role = "user" THEN "User: "
    ELSE "Assistant: "

\* prompt.split("\n")
RECURSIVE split_lines(_)
split_lines(s) ==
    IF \A i \in 1..Len(s) : s[i] # "\n" THEN <<s>>
    ELSE LET i == CHOOSE j \in 1..Len(s) :
                      s[j] = "\n" /\ \A m \in 1..(j - 1) : s[m] # "\n"
         IN  <<SubSeq(s, 1, i - 1)>> \o split_lines(SubSeq(s, i + 1, Len(s)))

\* C21: the prompt that generate_text renders has one line per message, in the
\* order of the messages, each beginning with the label of the message's
\* role, and a last line "Assistant:"; it has as many lines as there are
\* messages, plus one.
C21_PromptRendering ==
    \A t \in Tasks :
        (pc[t] = "done" /\ frame[t].op = "generate" /\ frame[t].model # 0)
        => LET lines == split_lines(frame[t].prompt)
               msgs == frame[t].messages
           IN  /\ Len(lines) = Len(msgs) + 1
               /\ lines[Len(lines)] = <<"Assistant:">>
               /\ \A k \in 1..Len(msgs) :
                     msgs[k].role \in {"system", "user", "assistant"}
                     => lines[k] = <<RoleLabel(msgs[k].role)>> \o msgs[k].content

\* C22: on a miss with the cache at max_models entries the victim has been
\* unloaded and removed when the capability is validated and the loader is
\* called, and when the load then fails (an unsupported model_type, or every
\* strategy failing) the cache is left with the previous entries minus the
\* victim, one fewer than before the call.
C22_EvictionNotRolledBack ==
    \A t \in Tasks :
        (/\ frame[t].op \in LoadOps
         /\ ~frame[t].hit
         /\ Len(frame[t].pre) >= max_models
         /\ \/ pc[t] = "loading"
            \/ pc[t] = "done" /\ frame[t].loader = "failed")
        => LET pre == frame[t].pre
               victim == oldest_key(pre)
           IN  /\ frame[t].evicted = victim
               /\ loaded_models = dict_del(pre, victim)
               /\ Len(loaded_models) = max_models - 1
               /\ objects[dict_get(pre, victim).model].reclaim # "none"
               /\ pc[t] = "loading" => frame[t].loader = "none"
               /\ pc[t] = "done" => frame[t].raised \in {"ValueError", "OSError"}

C22_Witness ==
    \E t \in Tasks :
        /\ pc[t] = "done"
        /\ frame[t].loader = "failed"
        /\ frame[t].raised = "ValueError"
        /\ max_models = 2
        /\ Len(frame[t].pre) = 2
        /\ loaded_models = <<frame[t].pre[2]>>

\* C23: with max_models = 0, whenever a load_model call has returned a handle
\* the cache holds exactly one entry, the one of the requested key, so its
\* size exceeds max_models; on a miss whatever was resident before has been
\* evicted and unloaded and the new entry inserted.
C23_ZeroCapacity ==
    \A t \in Tasks :
        (max_models = 0 /\ Returned(t) /\ frame[t].model # 0)
        => /\ dict_keys(loaded_models) = <<Key(t)>>
           /\ dict_get(loaded_models, Key(t)).model = frame[t].model
           /\ Len(loaded_models) > max_models
           /\ ~frame[t].hit
              => /\ Len(frame[t].pre) <= 1
                 /\ \A i \in 1..Len(frame[t].pre) :
                       /\ frame[t].evicted = frame[t].pre[i][1]
                       /\ objects[frame[t].pre[i][2].model].reclaim # "none"

C23_Witness ==
    \E t \in Tasks :
        /\ max_models = 0
        /\ MissLoaded(t)
        /\ Len(frame[t].pre) = 1
        /\ frame[t].evicted = frame[t].pre[1][1]
        /\ dict_keys(loaded_models) = <<Key(t)>>

====
